---- MODULE Spec2Model ----
(***************************************************************************)
(* A model of analyze_structure.py: the FileCrawler walk over a directory  *)
(* tree, the Directory / File tree it builds, the aggregate accessors of   *)
(* Directory and the tree view produced by Directory.get_grid.             *)
(*                                                                         *)
(* Python strings are sequences of one-character strings, so that          *)
(* os.path.splitext, str.strip, str.split and the f-strings are computed,  *)
(* not assumed.  A path is the sequence of its components.                 *)
(***************************************************************************)
EXTENDS Integers, Sequences, FiniteSets, TLC

VARIABLES
    fc,         \* the FileCrawler: its settings after validate_arguments
    pc,         \* position of crawl(): "exited", "start", "load", "loaded",
                \* "done", "aborted"
    stack,      \* the active _load_dir calls, outermost first
    structure,  \* the Directory returned by _load_dir(self.dir_name)
    disk,       \* the directory entries the walk has examined so far
    out,        \* what crawl() printed: the grid and the totals
    error       \* the exception that ended the walk, if any

vars == <<fc, pc, stack, structure, disk, out, error>>

---------------------------------------------------------------------------
(* Bounds of the model *)

\* the number of directory entries on the disk that the walk examines
MaxItems == 3
\* the depth of the deepest directory on the disk (the root is at depth 0)
MaxDepth == 2

---------------------------------------------------------------------------
(* Python values *)

\* Python's None, as the value of a statistic that was not measured
None == -1
\* the TypeError raised by `count += None`
TypeError == -2
\* None as a cell of a grid row
NoneCell == <<"None">>

\* the character U+2014 of the branch marker is written "-"
EmDash == "-"

\* the characters of str.isspace() that have no escape in a string here,
\* each written as its code point
VT == "U+000B"
FS == "U+001C"
GS == "U+001D"
RS == "U+001E"
US == "U+001F"
NEL == "U+0085"
NBSP == "U+00A0"
UnicodeSpaces ==
    {"U+1680", "U+2000", "U+2001", "U+2002", "U+2003", "U+2004", "U+2005",
     "U+2006", "U+2007", "U+2008", "U+2009", "U+200A", "U+2028", "U+2029",
     "U+202F", "U+205F", "U+3000"}

\* the characters str.strip() and str.split() take for whitespace: those
\* for which str.isspace() is true
Whitespace ==
    {" ", "\t", "\n", VT, "\f", "\r", FS, GS, RS, US, NEL, NBSP}
        \cup UnicodeSpaces

RECURSIVE Repeat(_, _)
\* string * n
Repeat(s, n) == IF n <= 0 THEN <<>> ELSE s \o Repeat(s, n - 1)

Digit(d) ==
    CASE d = 0 -> "0" [] d = 1 -> "1" [] d = 2 -> "2" [] d = 3 -> "3"
      [] d = 4 -> "4" [] d = 5 -> "5" [] d = 6 -> "6" [] d = 7 -> "7"
      [] d = 8 -> "8" [] d = 9 -> "9"

RECURSIVE FormatInt(_)
\* f"{n}" of a non-negative int
FormatInt(n) ==
    IF n < 10 THEN <<Digit(n)>> ELSE FormatInt(n \div 10) \o <<Digit(n % 10)>>

RECURSIVE LStrip(_, _)
\* string.lstrip(chars)
LStrip(s, chars) ==
    IF s # <<>> /\ Head(s) \in chars THEN LStrip(Tail(s), chars) ELSE s

RECURSIVE RStrip(_, _)
\* string.rstrip(chars)
RStrip(s, chars) ==
    IF s # <<>> /\ s[Len(s)] \in chars
    THEN RStrip(SubSeq(s, 1, Len(s) - 1), chars)
    ELSE s

\* string.strip(chars)
Strip(s, chars) == RStrip(LStrip(s, chars), chars)

\* len(line.split()): the number of maximal runs of non-whitespace
SplitCount(line) ==
    Cardinality({i \in 1..Len(line) :
        /\ line[i] \notin Whitespace
        /\ (i = 1 \/ line[i - 1] \in Whitespace)})

---------------------------------------------------------------------------
(* os.path *)

\* os.path.basename of a path
basename(path) == IF path = <<>> THEN <<>> ELSE path[Len(path)]

\* os.path.join(dir_path, item_name)
join(dir_path, item_name) == Append(dir_path, item_name)

\* the last index of "." in a name, 0 if there is none
LastDot(name) ==
    IF \E i \in 1..Len(name) : name[i] = "."
    THEN CHOOSE i \in 1..Len(name) :
            /\ name[i] = "."
            /\ \A j \in (i + 1)..Len(name) : name[j] # "."
    ELSE 0

\* os.path.splitext(path)[1]: the suffix of the last component from its last
\* dot on, unless every character before that dot is a dot too
splitext_ext(path) ==
    LET name == basename(path)
        d    == LastDot(name)
    IN  IF d > 0 /\ \E j \in 1..(d - 1) : name[j] # "."
        THEN SubSeq(name, d, Len(name))
        ELSE <<>>

\* a call that returns value
Return(value) == [returns |-> value]
\* a call that raises FileNotFoundError
FileNotFoundError == [raises |-> "FileNotFoundError"]

\* what os.stat tells of a path: that there is nothing at the path, or which
\* file (device and inode) is there
NotFound == "NotFound"
ScriptFile == "the file of sys.argv[0]"
OtherFile == "another file"

\* os.path.samefile(a, b), given what os.stat tells of a and of b: os.stat
\* raises FileNotFoundError for a path where there is nothing
samefile(stat_a, stat_b) ==
    IF NotFound \in {stat_a, stat_b}
    THEN FileNotFoundError
    ELSE Return(stat_a = stat_b)

---------------------------------------------------------------------------
(* The tree: File and Directory *)

StatNames == {"line_count", "non_blank_line_count", "word_count", "char_count", "size"}

\* kwargs.get(key): the value of the key, None when the key is absent
kwargs_get(kwargs, key) == IF key \in DOMAIN kwargs THEN kwargs[key] ELSE None

\* File(file_path, **file_info)
File(file_path, file_info) ==
    [kind                 |-> "File",
     name                 |-> basename(file_path),
     line_count           |-> kwargs_get(file_info, "line_count"),
     non_blank_line_count |-> kwargs_get(file_info, "non_blank_line_count"),
     word_count           |-> kwargs_get(file_info, "word_count"),
     char_count           |-> kwargs_get(file_info, "char_count"),
     size                 |-> kwargs_get(file_info, "size")]

\* Directory(dir_name): no items
Directory(dir_name) ==
    [kind |-> "Directory", name |-> basename(dir_name), items |-> <<>>]

\* Directory.__iadd__: current_dir += item
iadd(dir, item) == [dir EXCEPT !.items = Append(@, item)]

\* AddCount with `count = value` written for `count += value`
AddCountAssign(count, value) ==
    IF count = TypeError \/ value = TypeError \/ value = None
    THEN TypeError
    ELSE value

\* count += value, for an int count: a TypeError when value is None, and an
\* exception raised by an inner accessor goes on up
AddCount(count, value) ==
    IF count = TypeError \/ value = TypeError \/ value = None
    THEN TypeError
    ELSE count + value

RECURSIVE Stat(_, _)
RECURSIVE SumStat(_, _, _, _)
\* the loop `for item in self._items: count += item.<stat>()` from item i on
SumStat(items, stat, i, count) ==
    IF i > Len(items) \/ count = TypeError
    THEN count
    ELSE SumStat(items, stat, i + 1, AddCount(count, Stat(items[i], stat)))

\* item.<stat>() of a File or a Directory
Stat(item, stat) ==
    IF item.kind = "File"
    THEN item[stat]
    ELSE SumStat(item.items, stat, 1, 0)

line_count(item) == Stat(item, "line_count")
non_blank_line_count(item) == Stat(item, "non_blank_line_count")
word_count(item) == Stat(item, "word_count")
char_count(item) == Stat(item, "char_count")
size(item) == Stat(item, "size")

\* has_file that looks at the items of the directory only
has_file_shallow(dir) ==
    \E i \in 1..Len(dir.items) : dir.items[i].kind = "File"

RECURSIVE has_file(_)
\* Directory.has_file
has_file(dir) ==
    \E i \in 1..Len(dir.items) :
        \/ dir.items[i].kind = "File"
        \/ dir.items[i].kind = "Directory" /\ has_file(dir.items[i])

RECURSIVE item_counts(_)
RECURSIVE ItemCountsFrom(_, _, _)
\* the loop of item_counts from item i on, counts = <<dir_count, file_count>>
ItemCountsFrom(items, i, counts) ==
    IF i > Len(items)
    THEN counts
    ELSE IF items[i].kind = "File"
         THEN ItemCountsFrom(items, i + 1, <<counts[1], counts[2] + 1>>)
         ELSE LET sub == item_counts(items[i])
              IN  ItemCountsFrom(items, i + 1,
                      <<counts[1] + 1 + sub[1], counts[2] + sub[2]>>)

\* Directory.item_counts: <<dir_count, file_count>>
item_counts(dir) == ItemCountsFrom(dir.items, 1, <<0, 0>>)

\* num_hidden without `count += item.num_hidden()`
num_hidden_shallow(dir) ==
    Cardinality({i \in 1..Len(dir.items) :
        dir.items[i].kind = "Directory" /\ ~has_file(dir.items[i])})

RECURSIVE num_hidden(_)
RECURSIVE NumHiddenFrom(_, _, _)
\* the loop of num_hidden from item i on
NumHiddenFrom(items, i, count) ==
    IF i > Len(items)
    THEN count
    ELSE IF items[i].kind = "Directory"
         THEN NumHiddenFrom(items, i + 1,
                  count + (IF has_file(items[i]) THEN 0 ELSE 1)
                        + num_hidden(items[i]))
         ELSE NumHiddenFrom(items, i + 1, count)

\* Directory.num_hidden
num_hidden(dir) == NumHiddenFrom(dir.items, 1, 0)

---------------------------------------------------------------------------
(* The tree view *)

ContinuationMarker == <<"|", " ", " ", " ">>
BranchMarker == <<"|", EmDash, EmDash, " ">>

\* _get_depth with `"|   " * depth` written for `"|   " * (depth - 1)`
get_depth_one_more(depth) ==
    IF depth = 0
    THEN <<>>
    ELSE (IF depth > 0 THEN Repeat(ContinuationMarker, depth) ELSE <<>>)
         \o BranchMarker

\* Directory._get_depth
get_depth(depth) ==
    IF depth = 0
    THEN <<>>
    ELSE (IF depth > 0 THEN Repeat(ContinuationMarker, depth - 1) ELSE <<>>)
         \o BranchMarker

\* Directory._get_directory_row
get_directory_row(dir_name, depth, num_cols) ==
    <<get_depth(depth) \o dir_name \o <<"/">>>>
    \o [i \in 1..(num_cols - 1) |-> NoneCell]

\* `if value:` for an int or None
Truthy(value) == value # None /\ value # 0

\* one `if self._x: info.append(f"{self._x} <unit>")` of info_row
InfoCell(value, unit) ==
    IF Truthy(value) THEN <<FormatInt(value) \o unit>> ELSE <<>>

\* File.info_row
info_row(file) ==
    InfoCell(file.line_count, <<" ", "l", "i", "n", "e", "s">>)
    \o InfoCell(file.non_blank_line_count,
                <<" ", "n", "o", "n", "-", "b", "l", "a", "n", "k",
                  " ", "l", "i", "n", "e", "s">>)
    \o InfoCell(file.word_count, <<" ", "w", "o", "r", "d", "s">>)
    \o InfoCell(file.char_count, <<" ", "c", "h", "a", "r", "s">>)
    \o InfoCell(file.size, <<" ", "b", "y", "t", "e", "s">>)

\* the recursing branch of get_grid without `show_all or item.has_file()`
descends_always(item, recurse, show_all) == recurse

\* the condition of the recursing branch of get_grid
descends(item, recurse, show_all) == recurse /\ (show_all \/ has_file(item))

RECURSIVE get_grid(_, _, _, _, _)
RECURSIVE GridFrom(_, _, _, _, _, _, _)
\* the loop of get_grid from item i on; depth is already incremented
GridFrom(dir, i, recurse, show_all, num_cols, depth, grid) ==
    IF i > Len(dir.items)
    THEN grid
    ELSE LET item == dir.items[i]
             rows ==
                 IF item.kind = "File"
                 THEN << <<get_depth(depth) \o item.name>> \o info_row(item) >>
                 ELSE IF ~recurse
                      THEN <<get_directory_row(dir.name, depth, num_cols)>>
                      ELSE IF descends(item, recurse, show_all)
                           THEN get_grid(item, recurse, show_all, num_cols, depth)
                           ELSE <<>>
         IN  GridFrom(dir, i + 1, recurse, show_all, num_cols, depth, grid \o rows)

\* Directory.get_grid
get_grid(dir, recurse, show_all, num_cols, depth) ==
    GridFrom(dir, 1, recurse, show_all, num_cols, depth + 1,
             <<get_directory_row(dir.name, depth, num_cols)>>)

\* Directory.print_totals: the totals printed, None for a total not printed
print_totals(dir, show_non_blank, show_words, show_chars, show_sizes) ==
    [line_count           |-> line_count(dir),
     non_blank_line_count |-> IF show_non_blank THEN non_blank_line_count(dir) ELSE None,
     word_count           |-> IF show_words THEN word_count(dir) ELSE None,
     char_count           |-> IF show_chars THEN char_count(dir) ELSE None,
     size                 |-> IF show_sizes THEN size(dir) ELSE None]

---------------------------------------------------------------------------
(* The inputs: the command line and the disk *)

py == <<"p", "y">>
txt == <<"t", "x", "t">>
a_py == <<"a", ".", "p", "y">>
dot_py == <<".", "p", "y">>
b_txt == <<"b", ".", "t", "x", "t">>
sub == <<"s", "u", "b">>
ign == <<"i", "g", "n">>
top == <<"t", "o", "p">>

\* the directory given on the command line
RootPath == <<top>>

\* names an entry of a directory listing can have, by what the entry is
FileNames == {a_py, dot_py, b_txt}
DirNames == {sub, ign}

\* the -e option
ExtensionChoices == {{}, {txt}}
\* the --if and --id options, as <<ignore_files, ignore_dirs>>
IgnoreChoices == {<<{}, {}>>, <<{a_py}, {ign}>>}
\* the switches given besides -r and -a
FlagChoices ==
    {{}, {"show_tree"}, {"fav"}, {"words"}, {"long_analysis"}}

\* the lines a readable file can hold, each with its line terminator
ThreeLines == << <<"a", "\f", "b", "\n">>, <<NBSP, "\n">>, <<" ", "c">> >>
FileContents == {<<>>, ThreeLines}
\* what os.path.getsize can return
FileSizes == {0, 12}

---------------------------------------------------------------------------
(* FileCrawler *)

\* sys.exit(1)
SystemExit == [raises |-> "SystemExit", code |-> 1]

\* FileCrawler.validate_arguments, on the settings given to __init__; isdir
\* is os.path.isdir(self.dir_name)
validate_arguments(kwargs, isdir) ==
    IF ~isdir THEN SystemExit ELSE
    [dir_name     |-> kwargs.dir_name,
     recursive    |-> kwargs.recursive \/ kwargs.fav,
     show_tree    |-> kwargs.show_tree \/ kwargs.fav,
     ignore_files |-> kwargs.ignore_files,
     ignore_dirs  |-> kwargs.ignore_dirs,
     extensions   |-> IF kwargs.extensions = {} THEN {py} ELSE kwargs.extensions,
     non_blank    |-> kwargs.non_blank \/ kwargs.long_analysis,
     words        |-> kwargs.words \/ kwargs.fav \/ kwargs.long_analysis,
     chars        |-> kwargs.chars \/ kwargs.long_analysis,
     show_sizes   |-> kwargs.show_sizes \/ kwargs.long_analysis,
     show_all     |-> kwargs.show_all]

\* _get_ext as the text after the last "." of the name
get_ext_after_last_dot(file_path) ==
    LET name == basename(file_path)
    IN  IF LastDot(name) = 0
        THEN <<>>
        ELSE SubSeq(name, LastDot(name) + 1, Len(name))

\* FileCrawler._get_ext
get_ext(file_path) == LStrip(splitext_ext(file_path), {"."})

\* FileCrawler._is_valid_file, given what os.stat tells of file_path and of
\* sys.argv[0]
is_valid_file(file_path, stat_file, stat_argv0) ==
    LET same == samefile(stat_file, stat_argv0)
    IN  IF same = FileNotFoundError
        THEN FileNotFoundError
        ELSE Return(/\ ~same.returns
                    /\ get_ext(file_path) \in fc.extensions
                    /\ basename(file_path) \notin fc.ignore_files)

\* the file_info dictionary as _read_file sets it up
read_file_setup ==
    [k \in {"line_count"}
        \cup (IF fc.non_blank THEN {"non_blank_line_count"} ELSE {})
        \cup (IF fc.words THEN {"word_count"} ELSE {})
        \cup (IF fc.chars THEN {"char_count"} ELSE {}) |-> 0]

\* one counter of file_info after _read_line
ReadLineKey(file_info, k, line) ==
    CASE k = "line_count" -> file_info[k] + 1
      [] k = "non_blank_line_count" ->
            file_info[k] + (IF Len(Strip(line, Whitespace)) > 0 THEN 1 ELSE 0)
      [] k = "word_count" -> file_info[k] + SplitCount(line)
      [] k = "char_count" -> file_info[k] + Len(line)

\* FileCrawler._read_line
read_line(file_info, line) ==
    [k \in DOMAIN file_info |-> ReadLineKey(file_info, k, line)]

RECURSIVE ReadLines(_, _)
\* the loop of _read_file over the lines of an opened file
ReadLines(file_info, lines) ==
    IF lines = <<>>
    THEN file_info
    ELSE ReadLines(read_line(file_info, Strip(Head(lines), {"\n"})), Tail(lines))

\* FileCrawler._read_file: opened tells whether open() succeeded
read_file(opened, lines) ==
    IF opened THEN ReadLines(read_file_setup, lines) ELSE read_file_setup

\* file_info[key] = value
SetKey(file_info, key, value) ==
    [k \in DOMAIN file_info \cup {key} |-> IF k = key THEN value ELSE file_info[k]]

\* FileCrawler._load_file, given what open, the read and getsize deliver
load_file(file_path, opened, lines, bytes) ==
    LET file_info == read_file(opened, lines)
    IN  File(file_path,
             IF fc.show_sizes THEN SetKey(file_info, "size", bytes) ELSE file_info)

\* _load_dir without `item_name not in self.ignore_dirs`
load_dir_branch_no_ignore(item_name, isdir, isfile, item_path, stat_file, stat_argv0) ==
    IF isdir
    THEN IF fc.recursive THEN "recurse" ELSE "placeholder"
    ELSE IF ~isfile
         THEN "skip"
         ELSE LET valid == is_valid_file(item_path, stat_file, stat_argv0)
              IN  IF valid = FileNotFoundError
                  THEN "raise"
                  ELSE IF valid.returns THEN "file" ELSE "skip"

\* _load_dir without `if self.recursive`: it always recurses
load_dir_branch_always_recurse(item_name, isdir, isfile, item_path, stat_file, stat_argv0) ==
    IF isdir /\ item_name \notin fc.ignore_dirs
    THEN "recurse"
    ELSE IF ~isfile
         THEN "skip"
         ELSE LET valid == is_valid_file(item_path, stat_file, stat_argv0)
              IN  IF valid = FileNotFoundError
                  THEN "raise"
                  ELSE IF valid.returns THEN "file" ELSE "skip"

\* the branch _load_dir takes for one item of the listing: "raise" when
\* _is_valid_file raises
load_dir_branch(item_name, isdir, isfile, item_path, stat_file, stat_argv0) ==
    IF isdir /\ item_name \notin fc.ignore_dirs
    THEN IF fc.recursive THEN "recurse" ELSE "placeholder"
    ELSE IF ~isfile
         THEN "skip"
         ELSE LET valid == is_valid_file(item_path, stat_file, stat_argv0)
              IN  IF valid = FileNotFoundError
                  THEN "raise"
                  ELSE IF valid.returns THEN "file" ELSE "skip"

---------------------------------------------------------------------------
(* The walk: crawl() and the recursion of _load_dir *)

NoTree == [kind |-> "NoTree"]
NoError == [type |-> "NoError", path |-> <<>>]
NoOutput == [printed |-> FALSE]

\* an entry of the disk, as the walk found it: kind is "dir" or "file";
\* access tells whether listing the directory or opening the file
\* succeeded (TRUE when the walk did not try); stat is what os.stat told of
\* the entry when os.path.samefile asked (OtherFile when it did not ask)
Entry(path, kind, access, stat) ==
    [path |-> path, kind |-> kind, access |-> access, stat |-> stat]

\* the number of columns of the grid: len(headers) in crawl
num_cols ==
    2 + (IF fc.non_blank THEN 1 ELSE 0) + (IF fc.words THEN 1 ELSE 0)
      + (IF fc.chars THEN 1 ELSE 0) + (IF fc.show_sizes THEN 1 ELSE 0)

\* the _load_dir call that is running
Top == stack[Len(stack)]

\* the entries of the listing of dir_path that the loop has been given
Listed(dir_path) ==
    {e \in disk : /\ Len(e.path) = Len(dir_path) + 1
                  /\ SubSeq(e.path, 1, Len(dir_path)) = dir_path}

\* item_name is the next name os.listdir gives the running _load_dir
NextItem(item_name) ==
    /\ pc = "load"
    /\ Cardinality(disk) < MaxItems
    /\ \A e \in Listed(Top.dir_path) : basename(e.path) # item_name

\* an exception leaves crawl(): nothing is printed
Raise(type, path) ==
    /\ pc' = "aborted"
    /\ error' = [type |-> type, path |-> path]
    /\ stack' = <<>>

\* current_dir += item, in the running _load_dir
AppendItem(item) ==
    stack' = [stack EXCEPT ![Len(stack)].current_dir = iadd(@, item)]

\* FileCrawler.__init__: the attributes are set from kwargs and validated.
\* When validate_arguments exits, the attributes are as __init__ set them and
\* there is no walk
Init ==
    /\ \E recursive \in BOOLEAN, show_all \in BOOLEAN, flags \in FlagChoices,
          extensions \in ExtensionChoices, ignore \in IgnoreChoices,
          isdir \in BOOLEAN :
          LET kwargs == [dir_name      |-> RootPath,
                         recursive     |-> recursive,
                         show_tree     |-> "show_tree" \in flags,
                         fav           |-> "fav" \in flags,
                         ignore_files  |-> ignore[1],
                         ignore_dirs   |-> ignore[2],
                         extensions    |-> extensions,
                         non_blank     |-> "non_blank" \in flags,
                         words         |-> "words" \in flags,
                         chars         |-> "chars" \in flags,
                         show_sizes    |-> "show_sizes" \in flags,
                         long_analysis |-> "long_analysis" \in flags,
                         show_all      |-> show_all]
              validated == validate_arguments(kwargs, isdir)
          IN  IF validated = SystemExit
              THEN /\ fc = kwargs
                   /\ pc = "exited"
                   /\ error = [type |-> "SystemExit", path |-> kwargs.dir_name]
              ELSE /\ fc = validated
                   /\ pc = "start"
                   /\ error = NoError
    /\ stack = <<>>
    /\ structure = NoTree
    /\ disk = {}
    /\ out = NoOutput

\* crawl() calls _load_dir(self.dir_name): the Directory is made and the
\* directory listed
CrawlStart ==
    /\ pc = "start"
    /\ \E listable \in BOOLEAN :
          IF listable
          THEN /\ stack' = <<[dir_path    |-> fc.dir_name,
                              current_dir |-> Directory(fc.dir_name)]>>
               /\ pc' = "load"
               /\ error' = error
          ELSE Raise("listdir", fc.dir_name)
    /\ UNCHANGED <<fc, structure, disk, out>>

\* a subdirectory that is not ignored, recursive: _load_dir(item_path) is
\* called, which makes the Directory and lists the subdirectory
LoadSubdir ==
    \E item_name \in DirNames, listable \in BOOLEAN :
        LET item_path == join(Top.dir_path, item_name) IN
        /\ NextItem(item_name)
        /\ Len(stack) <= MaxDepth
        /\ load_dir_branch(item_name, TRUE, FALSE, item_path,
                           OtherFile, ScriptFile) = "recurse"
        /\ disk' = disk \cup {Entry(item_path, "dir", listable, OtherFile)}
        /\ IF listable
           THEN /\ stack' = Append(stack, [dir_path    |-> item_path,
                                           current_dir |-> Directory(item_path)])
                /\ UNCHANGED <<pc, error>>
           ELSE Raise("listdir", item_path)
        /\ UNCHANGED <<fc, structure, out>>

\* a subdirectory that is not ignored, not recursive: an empty Directory
LoadPlaceholder ==
    \E item_name \in DirNames :
        LET item_path == join(Top.dir_path, item_name) IN
        /\ NextItem(item_name)
        /\ Len(stack) <= MaxDepth
        /\ load_dir_branch(item_name, TRUE, FALSE, item_path,
                           OtherFile, ScriptFile) = "placeholder"
        /\ disk' = disk \cup {Entry(item_path, "dir", TRUE, OtherFile)}
        /\ AppendItem(Directory(item_path))
        /\ UNCHANGED <<fc, pc, structure, out, error>>

\* a valid file: _load_file(item_path).  open() succeeds or raises IOError,
\* which is caught; reading the lines and os.path.getsize succeed or raise
LoadFile ==
    \E item_name \in FileNames, opened \in BOOLEAN, readable \in BOOLEAN,
       lines \in FileContents, sizable \in BOOLEAN, bytes \in FileSizes :
        LET item_path == join(Top.dir_path, item_name) IN
        /\ NextItem(item_name)
        /\ load_dir_branch(item_name, FALSE, TRUE, item_path,
                           OtherFile, ScriptFile) = "file"
        \* choices that are not looked at are fixed
        /\ ~opened => readable
        /\ ~(opened /\ readable) => lines = <<>>
        /\ ~(fc.show_sizes /\ readable) => sizable
        /\ ~(fc.show_sizes /\ readable /\ sizable) => bytes = 0
        /\ disk' = disk \cup {Entry(item_path, "file", opened, OtherFile)}
        /\ IF ~readable
           THEN Raise("read", item_path)
           ELSE IF ~sizable
                THEN Raise("getsize", item_path)
                ELSE /\ AppendItem(load_file(item_path, opened, lines, bytes))
                     /\ UNCHANGED <<pc, error>>
        /\ UNCHANGED <<fc, structure, out>>

\* a file for which os.path.samefile raises in _is_valid_file: the file, or
\* the script at sys.argv[0], is not there when os.stat looks for it
SameFileRaises ==
    \E item_name \in FileNames, stat_file \in {OtherFile, NotFound},
       stat_argv0 \in {ScriptFile, NotFound} :
        LET item_path == join(Top.dir_path, item_name) IN
        /\ NextItem(item_name)
        \* os.stat(sys.argv[0]) is not called when os.stat(file_path) raised
        /\ stat_file = NotFound => stat_argv0 = ScriptFile
        /\ load_dir_branch(item_name, FALSE, TRUE, item_path,
                           stat_file, stat_argv0) = "raise"
        /\ disk' = disk \cup {Entry(item_path, "file", TRUE, stat_file)}
        /\ Raise("samefile", item_path)
        /\ UNCHANGED <<fc, structure, out>>

\* an item that is neither loaded as a directory nor as a file
SkipItem ==
    \E item_name \in DirNames \cup FileNames, kind \in {"dir", "file"},
       stat_file \in {ScriptFile, OtherFile} :
        LET item_path == join(Top.dir_path, item_name) IN
        /\ NextItem(item_name)
        /\ kind = "dir" => /\ item_name \in DirNames
                           /\ Len(stack) <= MaxDepth
                           /\ stat_file = OtherFile
        /\ kind = "file" => item_name \in FileNames
        /\ load_dir_branch(item_name, kind = "dir", kind = "file", item_path,
                           stat_file, ScriptFile) = "skip"
        /\ disk' = disk \cup {Entry(item_path, kind, TRUE, stat_file)}
        /\ UNCHANGED <<fc, pc, stack, structure, out, error>>

\* the listing is exhausted: _load_dir returns current_dir, to the
\* _load_dir that called it or to crawl()
LoadDirReturn ==
    /\ pc = "load"
    /\ IF Len(stack) = 1
       THEN /\ structure' = Top.current_dir
            /\ stack' = <<>>
            /\ pc' = "loaded"
       ELSE /\ stack' = [SubSeq(stack, 1, Len(stack) - 1)
                             EXCEPT ![Len(stack) - 1].current_dir =
                                        iadd(@, Top.current_dir)]
            /\ UNCHANGED <<structure, pc>>
    /\ UNCHANGED <<fc, disk, out, error>>

\* the rest of crawl(): the tree view and the totals
CrawlReport ==
    /\ pc = "loaded"
    /\ LET counts == item_counts(structure)
           hidden == IF fc.show_all THEN None ELSE num_hidden(structure)
       IN  out' = [printed    |-> TRUE,
                   grid       |-> IF fc.show_tree
                                  THEN get_grid(structure, fc.recursive,
                                                fc.show_all, num_cols, 0)
                                  ELSE <<>>,
                   dir_count  |-> counts[1],
                   file_count |-> counts[2],
                   shown      |-> IF fc.show_all THEN None ELSE counts[1] - hidden,
                   hidden     |-> hidden,
                   totals     |-> print_totals(structure, fc.non_blank, fc.words,
                                               fc.chars, fc.show_sizes)]
    /\ pc' = "done"
    /\ UNCHANGED <<fc, stack, structure, disk, error>>

Next ==
    \/ CrawlStart
    \/ LoadSubdir
    \/ LoadPlaceholder
    \/ LoadFile
    \/ SameFileRaises
    \/ SkipItem
    \/ LoadDirReturn
    \/ CrawlReport

Spec == Init /\ [][Next]_vars

---------------------------------------------------------------------------
(* The trees of a state, described without the accessors *)

RECURSIVE Positions(_)
\* the descendants of a directory, each as the sequence of item indices
\* leading to it
Positions(dir) ==
    UNION {{<<i>>} \cup
           (IF dir.items[i].kind = "Directory"
            THEN {<<i>> \o p : p \in Positions(dir.items[i])}
            ELSE {}) : i \in 1..Len(dir.items)}

RECURSIVE NodeAt(_, _)
\* the descendant at a position
NodeAt(dir, pos) ==
    IF pos = <<>> THEN dir ELSE NodeAt(dir.items[Head(pos)], Tail(pos))

FilePositions(dir) == {p \in Positions(dir) : NodeAt(dir, p).kind = "File"}
DirPositions(dir) == {p \in Positions(dir) : NodeAt(dir, p).kind = "Directory"}

\* the directories under construction and the finished tree
Roots ==
    {stack[i].current_dir : i \in 1..Len(stack)}
    \cup (IF structure.kind = "Directory" THEN {structure} ELSE {})

\* every Directory object of the state
Directories ==
    UNION {{NodeAt(t, p) : p \in DirPositions(t) \cup {<<>>}} : t \in Roots}

\* whether the walk measured a statistic
Measured(stat) ==
    CASE stat = "line_count" -> TRUE
      [] stat = "non_blank_line_count" -> fc.non_blank
      [] stat = "word_count" -> fc.words
      [] stat = "char_count" -> fc.chars
      [] stat = "size" -> fc.show_sizes

RECURSIVE SumOver(_, _, _)
\* the sum of a statistic over the files at a set of positions
SumOver(dir, ps, stat) ==
    IF ps = {}
    THEN 0
    ELSE LET p == CHOOSE q \in ps : TRUE
         IN  NodeAt(dir, p)[stat] + SumOver(dir, ps \ {p}, stat)

\* the sum of a statistic over the File descendants; there is no sum (None)
\* when a File descendant has no value for it
DescendantSum(dir, stat) ==
    IF \E p \in FilePositions(dir) : NodeAt(dir, p)[stat] = None
    THEN None
    ELSE SumOver(dir, FilePositions(dir), stat)

---------------------------------------------------------------------------
(* Claims *)

\* C1 as stated: for every Directory the walk builds and every statistic
\* accessor, the accessor returns the sum of that statistic over all File
\* descendants of the directory, 0 for a directory without File descendants.
C1_AsStated ==
    \A d \in Directories : \A stat \in StatNames :
        Stat(d, stat) = DescendantSum(d, stat)

\* C1 amended: line_count(), and every other statistic accessor whose
\* measurement was requested for the walk, returns the sum over all File
\* descendants (0 if there are none), at any depth and in any item order;
\* the accessor of a statistic that was not requested returns 0 for a
\* directory without File descendants and raises TypeError otherwise.
C1_Aggregation ==
    \A d \in Directories : \A stat \in StatNames :
        IF Measured(stat)
        THEN Stat(d, stat) = SumOver(d, FilePositions(d), stat)
        ELSE Stat(d, stat) = (IF FilePositions(d) = {} THEN 0 ELSE TypeError)

\* a finished tree with Files at two depths, a positive measured total and
\* a statistic that was not measured
C1_Witness ==
    /\ pc = "done"
    /\ \E p, q \in FilePositions(structure) : Len(p) = 1 /\ Len(q) = 2
    /\ out.totals.word_count > 0
    /\ ~fc.chars
    /\ char_count(structure) = TypeError

\* C2: has_file() of a Directory is true exactly when its subtree holds at
\* least one File, at any depth; it is false for an empty directory and for
\* one that holds only (nested) empty directories.
C2_HasFile ==
    \A d \in Directories : has_file(d) <=> FilePositions(d) # {}

\* a finished tree with a File, whose root holds a directory with only an
\* empty directory in it
C2_Witness ==
    /\ pc = "done"
    /\ has_file(structure)
    /\ \E p \in DirPositions(structure) :
          /\ ~has_file(NodeAt(structure, p))
          /\ Positions(NodeAt(structure, p)) # {}

\* C3: num_hidden() of a Directory is the number of Directory descendants,
\* at any depth, the receiver excluded and the placeholders of a
\* non-recursive walk included, for which has_file() is false.
C3_NumHidden ==
    \A d \in Directories :
        num_hidden(d) =
            Cardinality({p \in DirPositions(d) : ~has_file(NodeAt(d, p))})

\* a finished tree with a hidden directory two levels down, next to a
\* directory that is not hidden
C3_Witness ==
    /\ pc = "done"
    /\ out.hidden = 1
    /\ \E p \in DirPositions(structure) :
          Len(p) = 2 /\ ~has_file(NodeAt(structure, p))
    /\ \E p \in DirPositions(structure) : has_file(NodeAt(structure, p))

\* the names on the way from a directory to the descendant at a position
NamePath(dir, pos) ==
    [k \in 1..Len(pos) |-> NodeAt(dir, SubSeq(pos, 1, k)).name]

\* the paths of the nodes of a kind in the tree of the directory at dir_path
PathsIn(dir, dir_path, kind) ==
    {dir_path \o NamePath(dir, p) :
        p \in {q \in Positions(dir) : NodeAt(dir, q).kind = kind}}

\* the paths of the nodes of a kind that the walk has put in the tree
TreePaths(kind) ==
    UNION {PathsIn(stack[i].current_dir, stack[i].dir_path, kind) :
              i \in 1..Len(stack)}
    \cup (IF structure.kind = "Directory"
          THEN PathsIn(structure, fc.dir_name, kind)
          ELSE {})

\* the text after the last "." of a name, empty when the name has no "."
AfterLastDot(name) ==
    IF \E i \in 1..Len(name) : name[i] = "."
    THEN LET d == CHOOSE i \in 1..Len(name) :
                     name[i] = "." /\ \A j \in (i + 1)..Len(name) : name[j] # "."
         IN  SubSeq(name, d + 1, Len(name))
    ELSE <<>>

\* the extension as os.path.splitext cuts it: the text after the last "."
\* of the name, empty when nothing but "." comes before that "."
SplitExtension(name) ==
    IF \E i \in 1..Len(name) : name[i] # "." /\ \E j \in (i + 1)..Len(name) : name[j] = "."
    THEN AfterLastDot(name)
    ELSE <<>>

\* C4 as stated: while the walk has not raised, a file entry it has examined
\* is a File node of the tree exactly when the text after the last "." of
\* its name is in extensions, its name is not in ignore_files and it is not
\* the running script.
C4_AsStated ==
    pc # "aborted" =>
        \A e \in disk : e.kind = "file" =>
            (e.path \in TreePaths("File") <=>
                /\ AfterLastDot(basename(e.path)) \in fc.extensions
                /\ basename(e.path) \notin fc.ignore_files
                /\ e.stat # ScriptFile)

\* C4 amended: the same, with the extension as os.path.splitext gives it:
\* the text after the last "." of the name, except that a name with nothing
\* but "." before its last "." (".py") has the empty extension.
C4_FileFilter ==
    pc # "aborted" =>
        \A e \in disk : e.kind = "file" =>
            (e.path \in TreePaths("File") <=>
                /\ SplitExtension(basename(e.path)) \in fc.extensions
                /\ basename(e.path) \notin fc.ignore_files
                /\ e.stat # ScriptFile)

\* a finished walk that examined the files "a.py", ".py" and "b.txt" of the
\* root, of which only "a.py" is in the tree
C4_Witness ==
    /\ pc = "done"
    /\ {e.path : e \in disk} = {<<top, a_py>>, <<top, dot_py>>, <<top, b_txt>>}
    /\ \A e \in disk : e.kind = "file"
    /\ TreePaths("File") = {<<top, a_py>>}

\* C5: in a recursive walk no directory below the root whose name is in
\* ignore_dirs is in the tree, nothing beneath such a directory is examined
\* or in the tree, and the counts printed are those of the tree.
C5_IgnoredDirs ==
    fc.recursive =>
        /\ \A path \in TreePaths("Directory") : basename(path) \notin fc.ignore_dirs
        /\ \A path \in TreePaths("File") \cup TreePaths("Directory") \cup
                       {e.path : e \in disk} :
              \A k \in 2..(Len(path) - 1) : path[k] \notin fc.ignore_dirs
        /\ pc = "done" =>
              /\ out.dir_count = Cardinality(TreePaths("Directory"))
              /\ out.file_count = Cardinality(TreePaths("File"))

\* a finished recursive walk that met an ignored directory two levels down
\* and loaded a file next to it
C5_Witness ==
    /\ pc = "done"
    /\ fc.recursive
    /\ \E e \in disk :
          /\ e.kind = "dir"
          /\ Len(e.path) = 3
          /\ basename(e.path) \in fc.ignore_dirs
    /\ out.file_count = 1
    /\ out.dir_count = 1

\* C6: after a walk that is not recursive, every subdirectory of the root
\* that is not ignored is a Directory without items in the tree, so that all
\* its aggregates are 0 and has_file() is false; nothing beneath it is
\* examined and the file count is that of the valid files in the root.
C6_NonRecursive ==
    (pc \in {"loaded", "done"} /\ ~fc.recursive) =>
        /\ \A e \in disk :
              (e.kind = "dir" /\ basename(e.path) \notin fc.ignore_dirs) =>
                  \E i \in 1..Len(structure.items) :
                      structure.items[i] = [kind  |-> "Directory",
                                            name  |-> basename(e.path),
                                            items |-> <<>>]
        /\ \A i \in 1..Len(structure.items) :
              structure.items[i].kind = "Directory" =>
                  /\ structure.items[i].items = <<>>
                  /\ \A stat \in StatNames : Stat(structure.items[i], stat) = 0
                  /\ ~has_file(structure.items[i])
        /\ \A e \in disk : Len(e.path) = 2
        /\ item_counts(structure)[2] =
              Cardinality({e \in disk :
                  /\ e.kind = "file"
                  /\ is_valid_file(e.path, e.stat, ScriptFile) = Return(TRUE)})

\* a finished walk that is not recursive, with two placeholders and a File
C6_Witness ==
    /\ pc = "done"
    /\ ~fc.recursive
    /\ out.dir_count = 2
    /\ out.file_count = 1
    /\ out.totals.line_count = 3

\* C7 as stated: a valid file that cannot be opened is not a File node of
\* the tree.
C7_AsStated ==
    pc # "aborted" =>
        \A e \in disk : (e.kind = "file" /\ ~e.access) =>
            e.path \notin TreePaths("File")

\* C8 as stated: no failure on an item below the root ends the walk.
C8_AsStated ==
    ~(pc = "aborted" /\ error.path # fc.dir_name)

\* C9 as stated: in the tree view of a walk that is not recursive, every
\* subdirectory of the root has one row, labelled with the depth prefix, the
\* name of the subdirectory and "/", and there are no rows for anything
\* beneath it: the rows after the first are those of the items, in order.
C9_AsStated ==
    (pc = "done" /\ fc.show_tree /\ ~fc.recursive) =>
        /\ Len(out.grid) = 1 + Len(structure.items)
        /\ \A i \in 1..Len(structure.items) :
              structure.items[i].kind = "Directory" =>
                  out.grid[i + 1][1] =
                      BranchMarker \o structure.items[i].name \o <<"/">>

---------------------------------------------------------------------------
(* The rows of the tree view, described by positions *)

\* whether position p comes before position q in pre-order
RECURSIVE Before(_, _)
Before(p, q) ==
    IF p = <<>> THEN q # <<>>
    ELSE IF q = <<>> THEN FALSE
    ELSE IF Head(p) = Head(q) THEN Before(Tail(p), Tail(q))
    ELSE Head(p) < Head(q)

\* a descendant has a row in the recursive tree view when every directory
\* on the way to it, itself included, is shown
Shown(dir, pos, show_all) ==
    \A k \in 1..Len(pos) :
        LET node == NodeAt(dir, SubSeq(pos, 1, k))
        IN  node.kind = "Directory" => (show_all \/ has_file(node))

ShownPositions(dir, show_all) ==
    {p \in Positions(dir) : Shown(dir, p, show_all)}

\* the label of the row of the descendant at a position
Label(dir, pos) ==
    LET node == NodeAt(dir, pos)
    IN  Repeat(ContinuationMarker, Len(pos) - 1) \o BranchMarker \o node.name
        \o (IF node.kind = "Directory" THEN <<"/">> ELSE <<>>)

\* C10: in the tree view of a recursive walk the rows after the root's are
\* those of the descendants for which every directory on the way, itself
\* included, has show_all or has_file(), in pre-order; a directory that
\* fails this has no row and nothing beneath it has one, yet it is counted
\* in the directory count, and the file count is that of the full tree.
C10_Visibility ==
    (pc = "done" /\ fc.show_tree /\ fc.recursive) =>
        LET shown == ShownPositions(structure, fc.show_all)
        IN  /\ Len(out.grid) = 1 + Cardinality(shown)
            /\ \A p \in shown :
                  out.grid[2 + Cardinality({q \in shown : Before(q, p)})][1]
                      = Label(structure, p)
            /\ out.dir_count = Cardinality(DirPositions(structure))
            /\ out.file_count = Cardinality(FilePositions(structure))

\* a recursive tree view without show_all of a tree with a File and with a
\* directory that holds only an empty directory: neither has a row
C10_Witness ==
    /\ pc = "done"
    /\ fc.show_tree /\ fc.recursive /\ ~fc.show_all
    /\ Len(out.grid) = 2
    /\ out.dir_count = 2
    /\ out.file_count = 1

---------------------------------------------------------------------------
(* The rows of the tree view of either kind of walk *)

\* the descendants with a row: in a recursive view the shown ones, otherwise
\* the items of the directory
RenderedPositions(dir, recurse, show_all) ==
    IF recurse
    THEN ShownPositions(dir, show_all)
    ELSE {p \in Positions(dir) : Len(p) = 1}

\* the row of the grid for a rendered position: the rows after the first
\* follow the positions in pre-order
RowOf(grid, rendered, pos) ==
    grid[2 + Cardinality({q \in rendered : Before(q, pos)})]

\* the statistics a File holds a value for
Present(file) == {stat \in StatNames : file[stat] # None}

\* the depth prefix of a row of a node at depth d
Prefix(d) ==
    IF d = 0 THEN <<>> ELSE Repeat(ContinuationMarker, d - 1) \o BranchMarker

\* C11 as stated: in the tree view the row of every File holds, after its
\* label, one value for each statistic the File has a value for, a value of
\* zero included, and none for a statistic it has no value for.
C11_AsStated ==
    (pc = "done" /\ fc.show_tree) =>
        LET rendered == RenderedPositions(structure, fc.recursive, fc.show_all)
        IN  \A p \in rendered :
                NodeAt(structure, p).kind = "File" =>
                    Len(RowOf(out.grid, rendered, p))
                        = 1 + Cardinality(Present(NodeAt(structure, p)))

\* C12: the tree view lists the root and then the rendered descendants in
\* pre-order (a directory before everything beneath it, items in insertion
\* order); the root's label has no prefix and the label of a row of a node
\* at depth d > 0 is d-1 continuation markers, one branch marker and then
\* the text of the row, so each rendered item is one level below its parent.
C12_PreOrder ==
    (pc = "done" /\ fc.show_tree) =>
        LET rendered == RenderedPositions(structure, fc.recursive, fc.show_all)
        IN  /\ Len(out.grid) = 1 + Cardinality(rendered)
            /\ out.grid[1][1] = structure.name \o <<"/">>
            /\ \A p \in rendered :
                  LET label == RowOf(out.grid, rendered, p)[1]
                      node  == NodeAt(structure, p)
                      d     == Len(p)
                      text  == SubSeq(label, 4 * d + 1, Len(label))
                  IN  /\ Len(label) > 4 * d
                      /\ SubSeq(label, 1, 4 * d) = Prefix(d)
                      /\ IF node.kind = "File"
                         THEN text = node.name
                         ELSE /\ text[Len(text)] = "/"
                              /\ fc.recursive => text = node.name \o <<"/">>

\* a tree view with a File two levels down, after its directory, and a File
\* of the root after both
C12_Witness ==
    /\ pc = "done"
    /\ fc.show_tree
    /\ Len(out.grid) = 4
    /\ structure.items[1].kind = "Directory"
    /\ structure.items[2].kind = "File"
    /\ out.grid[3][1] = ContinuationMarker \o BranchMarker \o b_txt
    /\ out.grid[4][1] = BranchMarker \o b_txt

\* the rows of a grid, the first excepted, that are rows of directories
DirectoryRows(grid) ==
    {i \in 2..Len(grid) : grid[i][1][Len(grid[i][1])] = "/"}

\* C13 as stated: without show_all the "shown" count printed is the number
\* of rows of subdirectories in the tree view of the same walk, and the
\* "hidden" count is the number of directories of the tree without a row,
\* in a recursive walk and in one that is not recursive.
C13_AsStated ==
    (pc = "done" /\ fc.show_tree /\ ~fc.show_all) =>
        /\ out.shown = Cardinality(DirectoryRows(out.grid))
        /\ out.hidden = out.dir_count - Cardinality(DirectoryRows(out.grid))

\* the equality of C13 for recursive walks alone, which holds
C13_RecursiveHalf ==
    (pc = "done" /\ fc.show_tree /\ ~fc.show_all /\ fc.recursive) =>
        /\ out.shown = Cardinality(DirectoryRows(out.grid))
        /\ out.hidden = out.dir_count - Cardinality(DirectoryRows(out.grid))

====
